---- MODULE Spec2Model ----
(***************************************************************************)
(* Job orchestration core of ytdlstem (backend/services/queue.py) together *)
(* with the application lifespan of backend/main.py.                       *)
(*                                                                         *)
(* The program runs on one asyncio event loop, so every action below is    *)
(* the code that runs between two suspension points (await) of one task.   *)
(* Job objects live in `heap` (one entry per Job(...) construction, in     *)
(* construction order); the registry `jobs` maps an identifier to the      *)
(* object it currently refers to, as the Python dict does.                 *)
(* A string is modelled as the sequence of its pieces; "" is << >>.        *)
(***************************************************************************)
EXTENDS Integers, Sequences, FiniteSets, TLC

VARIABLES
    MAX_WORKERS,    \* queue.py:38, read once from the environment
    phase,          \* position of main.lifespan: "new", "running", "stopped"
    jobs,           \* queue.py:43, identifier -> index into heap (0: absent)
    heap,           \* the Job objects constructed so far
    job_queue,      \* queue.py:42, FIFO of identifiers
    wpc,            \* position of each _worker task
    wjob,           \* the local `job` of each _worker task (index into heap)
    reaper,         \* position of the cleanup_old_jobs task
    now,            \* time.time()
    dirs,           \* identifiers whose output_dir exists on storage
    uuids,          \* values uuid.uuid4() has returned so far
    params,         \* per Job object, the keys of its `params` dict
    uploads,        \* Job objects whose start route awaits `file.read()`
    handler_calls,  \* history: per identifier, number of `await handler(job)`
    trace           \* history: per Job object, the values its status has taken

vars == <<MAX_WORKERS, phase, jobs, heap, job_queue, wpc, wjob, reaper, now,
          dirs, uuids, params, uploads, handler_calls, trace>>

----------------------------------------------------------------------------
(* Bounds of the model *)

MaxWorkers == 2      \* largest configured MAX_WORKERS explored
MaxJobs == 3         \* number of create_job calls explored
UuidCount == 3       \* number of distinct values uuid4() can return
PrefixDiv == 2       \* uuid values sharing one 8-character prefix
MaxErrLen == 1       \* longest failure description explored
TickStep == 1800     \* seconds the clock advances in one step
MaxTime == 4500      \* the clock stops advancing here
StartTime == 900     \* the clock's reading at startup

(* Program constants *)

CLEANUP_AFTER_SECONDS == 1800
WorkingProgress == 10
None == -1

QUEUED == "queued"
PROCESSING == "processing"
DONE == "done"
ERROR == "error"
JobStatus == {QUEUED, PROCESSING, DONE, ERROR}

(* register_handler is called once per router module at import time *)
_job_handlers == {"download", "stems", "karaoke"}

(* job types a caller of create_job may pass; the registry does not check *)
JobTypes == {"download", "other"}

Workers == 1..MaxWorkers
Uuids == 0..(UuidCount - 1)

(* str(uuid.uuid4())[:8]: the identifier keeps only the leading part *)
Prefix8(u) == u \div PrefixDiv

JobIds == {Prefix8(u) : u \in Uuids}

(* str(e) of the exceptions a handler may raise *)
RECURSIVE Chars(_)
Chars(n) == IF n = 0 THEN << >> ELSE Append(Chars(n - 1), "x")
ErrDescs == {Chars(n) : n \in 0..MaxErrLen}

MsgProcessing == <<"Processing...">>
MsgComplete == <<"Complete!">>
MsgWorking == <<"Downloading...">>
MsgNoHandler(job_type) == <<"No handler for job type: ", job_type>>

(* dataclass Job with its defaults *)
Job(job_id, job_type) ==
    [id |-> job_id, job_type |-> job_type, status |-> QUEUED, progress |-> 0,
     message |-> << >>, result |-> FALSE, created_at |-> now,
     completed_at |-> None]

(* history of the distinct values a status field takes *)
Record(t, status) == IF t[Len(t)] = status THEN t ELSE Append(t, status)

(* queue.py:96-97 *)
Claimed(job) ==
    [job EXCEPT !.status = PROCESSING, !.message = MsgProcessing]

(* NoHandler without the assignment to status *)
NoHandler_StatusKept(job) ==
    [job EXCEPT !.message = MsgNoHandler(job.job_type)]

(* a handler reports progress: downloader.py:160-161, separator.py:61-62 *)
Progressed(job) ==
    [job EXCEPT !.message = MsgWorking, !.progress = WorkingProgress]

(* queue.py:101-102 *)
NoHandler(job) ==
    [job EXCEPT !.status = ERROR, !.message = MsgNoHandler(job.job_type)]

(* queue.py:108-111; the handler has written job.result before returning *)
Completed(job) ==
    [job EXCEPT !.result = TRUE, !.status = DONE, !.progress = 100,
                !.completed_at = now, !.message = MsgComplete]

(* queue.py:113-115 *)
Failed(job, e) ==
    [job EXCEPT !.status = ERROR, !.message = e, !.completed_at = now]

(* `job_id in jobs` *)
InRegistry(job_id) == job_id \in DOMAIN jobs /\ jobs[job_id] # 0

(* jobs.keys() *)
RegistryIds == {i \in JobIds : InRegistry(i)}

(* jobs[job_id] *)
get_job(job_id) == heap[jobs[job_id]]

(* QueuedEarlier with `<=` for `<` *)
QueuedEarlier_OrEqual(j, job) ==
    j.status = QUEUED /\ j.created_at <= job.created_at

(* queue.py:81, the test of the loop body *)
QueuedEarlier(j, job) ==
    j.status = QUEUED /\ j.created_at < job.created_at

(* queue.py:79-82, the loop over jobs.items() *)
RECURSIVE PositionLoop(_, _, _)
PositionLoop(items, job_id, position) ==
    IF items = {} THEN position
    ELSE LET jid == CHOOSE i \in items : TRUE
         IN  PositionLoop(items \ {jid}, job_id,
                 IF QueuedEarlier(get_job(jid), get_job(job_id))
                 THEN position + 1 ELSE position)

get_queue_position(job_id) ==
    IF ~InRegistry(job_id) \/ get_job(job_id).status # QUEUED
    THEN 0
    ELSE PositionLoop(RegistryIds, job_id, 1)

----------------------------------------------------------------------------
Init ==
    /\ MAX_WORKERS \in 1..MaxWorkers
    /\ phase = "new"
    /\ jobs = [i \in JobIds |-> 0]
    /\ heap = << >>
    /\ job_queue = << >>
    /\ wpc = [w \in Workers |-> "none"]
    /\ wjob = [w \in Workers |-> 0]
    /\ reaper = "none"
    /\ now = StartTime
    /\ dirs = {}
    /\ uuids = {}
    /\ params = << >>
    /\ uploads = {}
    /\ handler_calls = [i \in JobIds |-> 0]
    /\ trace = << >>

(* start_workers with `range(MAX_WORKERS + 1)` *)
start_workers_OneTooMany ==
    /\ phase = "new"
    /\ phase' = "running"
    /\ wpc' = [w \in Workers |->
                  IF w <= MAX_WORKERS + 1 THEN "get" ELSE "none"]
    /\ reaper' = "sleep"
    /\ UNCHANGED <<params, uploads, MAX_WORKERS, jobs, heap, job_queue, wjob,
                   now, dirs, uuids, handler_calls, trace>>

(* main.lifespan up to its yield: start_workers, then the cleanup task *)
start_workers ==
    /\ phase = "new"
    /\ phase' = "running"
    /\ wpc' = [w \in Workers |-> IF w <= MAX_WORKERS THEN "get" ELSE "none"]
    /\ reaper' = "sleep"
    /\ UNCHANGED <<params, uploads, MAX_WORKERS, jobs, heap, job_queue, wjob,
                   now, dirs, uuids, handler_calls, trace>>

(* stop_workers that also empties the admission queue *)
stop_workers_DropsQueue ==
    /\ phase = "running"
    /\ phase' = "stopped"
    /\ wpc' = [w \in Workers |-> IF wpc[w] = "none" THEN "none" ELSE "exited"]
    /\ reaper' = "cancelled"
    /\ job_queue' = << >>
    /\ UNCHANGED <<params, uploads, MAX_WORKERS, jobs, heap, wjob, now, dirs,
                   uuids, handler_calls, trace>>

(* main.lifespan after its yield: cleanup_task.cancel(), stop_workers() *)
stop_workers ==
    /\ phase = "running"
    /\ phase' = "stopped"
    /\ wpc' = [w \in Workers |-> IF wpc[w] = "none" THEN "none" ELSE "exited"]
    /\ reaper' = "cancelled"
    /\ UNCHANGED <<params, uploads, MAX_WORKERS, jobs, heap, job_queue, wjob,
                   now, dirs, uuids, handler_calls, trace>>

(* create_job without os.makedirs *)
create_job_NoMakedirs(job_type, job_params, u) ==
    LET job_id == Prefix8(u)
        job == Job(job_id, job_type)
    IN  /\ phase = "running"
        /\ Len(heap) < MaxJobs
        /\ u \notin uuids
        /\ uuids' = uuids \cup {u}
        /\ heap' = Append(heap, job)
        /\ params' = Append(params, job_params)
        /\ trace' = Append(trace, <<QUEUED>>)
        /\ jobs' = [jobs EXCEPT ![job_id] = Len(heap) + 1]
        /\ job_queue' = Append(job_queue, job_id)
        /\ UNCHANGED <<MAX_WORKERS, phase, wpc, wjob, reaper, now, dirs,
                       handler_calls>>

(* queue.py:53-67 *)
create_job(job_type, job_params, u) ==
    LET job_id == Prefix8(u)
        job == Job(job_id, job_type)
    IN  /\ phase = "running"
        /\ Len(heap) < MaxJobs
        /\ u \notin uuids
        /\ uuids' = uuids \cup {u}
        /\ dirs' = dirs \cup {job_id}
        /\ heap' = Append(heap, job)
        /\ params' = Append(params, job_params)
        /\ trace' = Append(trace, <<QUEUED>>)
        /\ jobs' = [jobs EXCEPT ![job_id] = Len(heap) + 1]
        /\ job_queue' = Append(job_queue, job_id)
        /\ UNCHANGED <<MAX_WORKERS, phase, wpc, wjob, reaper, now,
                       handler_calls>>

(* _worker from `await job_queue.get()` to its next suspension point *)
WorkerGet(w) ==
    /\ wpc[w] = "get"
    /\ job_queue # << >>
    /\ LET job_id == Head(job_queue)
           o == jobs[job_id]
       IN  /\ job_queue' = Tail(job_queue)
           /\ IF o = 0
              THEN UNCHANGED <<heap, trace, wpc, wjob, handler_calls>>
              ELSE IF heap[o].job_type \notin _job_handlers
              THEN /\ heap' = [heap EXCEPT ![o] = NoHandler(Claimed(heap[o]))]
                   /\ trace' = [trace EXCEPT
                          ![o] = Record(Record(trace[o], PROCESSING), ERROR)]
                   /\ UNCHANGED <<wpc, wjob, handler_calls>>
              ELSE /\ heap' = [heap EXCEPT ![o] = Claimed(heap[o])]
                   /\ trace' = [trace EXCEPT
                          ![o] = Record(trace[o], PROCESSING)]
                   /\ wpc' = [wpc EXCEPT ![w] = "handler"]
                   /\ wjob' = [wjob EXCEPT ![w] = o]
                   /\ handler_calls' =
                          [handler_calls EXCEPT ![job_id] = @ + 1]
    /\ UNCHANGED <<params, uploads, MAX_WORKERS, phase, jobs, reaper, now,
                   dirs, uuids>>

(* the running handler writes job.message and job.progress *)
HandlerProgress(w) ==
    /\ wpc[w] = "handler"
    /\ heap[wjob[w]] # Progressed(heap[wjob[w]])
    /\ heap' = [heap EXCEPT ![wjob[w]] = Progressed(heap[wjob[w]])]
    /\ UNCHANGED <<params, uploads, MAX_WORKERS, phase, jobs, job_queue, wpc,
                   wjob, reaper, now, dirs, uuids, handler_calls, trace>>

(* the handler returns: queue.py:108-111, 117 *)
HandlerReturn(w) ==
    /\ wpc[w] = "handler"
    /\ LET o == wjob[w]
       IN  /\ heap' = [heap EXCEPT ![o] = Completed(heap[o])]
           /\ trace' = [trace EXCEPT ![o] = Record(trace[o], DONE)]
    /\ wpc' = [wpc EXCEPT ![w] = "get"]
    /\ wjob' = [wjob EXCEPT ![w] = 0]
    /\ UNCHANGED <<params, uploads, MAX_WORKERS, phase, jobs, job_queue,
                   reaper, now, dirs, uuids, handler_calls>>

(* HandlerRaise without the inner `except Exception`: the loop ends *)
HandlerRaise_Uncaught(w, e) ==
    /\ wpc[w] = "handler"
    /\ wpc' = [wpc EXCEPT ![w] = "exited"]
    /\ UNCHANGED <<params, uploads, MAX_WORKERS, phase, jobs, heap, job_queue,
                   wjob, reaper, now, dirs, uuids, handler_calls, trace>>

(* the handler raises e: queue.py:112-115, 117 *)
HandlerRaise(w, e) ==
    /\ wpc[w] = "handler"
    /\ LET o == wjob[w]
       IN  /\ heap' = [heap EXCEPT ![o] = Failed(heap[o], e)]
           /\ trace' = [trace EXCEPT ![o] = Record(trace[o], ERROR)]
    /\ wpc' = [wpc EXCEPT ![w] = "get"]
    /\ wjob' = [wjob EXCEPT ![w] = 0]
    /\ UNCHANGED <<params, uploads, MAX_WORKERS, phase, jobs, job_queue,
                   reaper, now, dirs, uuids, handler_calls>>

(* cleanup_old_jobs without its second loop, `del jobs[job_id]` *)
cleanup_old_jobs_KeepsRecords ==
    /\ reaper = "sleep"
    /\ LET to_remove == {i \in JobIds :
               /\ jobs[i] # 0
               /\ heap[jobs[i]].completed_at # None
               /\ heap[jobs[i]].completed_at # 0
               /\ (now - heap[jobs[i]].completed_at) > CLEANUP_AFTER_SECONDS}
       IN  \E undeleted \in SUBSET to_remove :
               dirs' = dirs \ (to_remove \ undeleted)
    /\ UNCHANGED <<params, uploads, MAX_WORKERS, phase, jobs, heap, job_queue,
                   wpc, wjob, reaper, now, uuids, handler_calls, trace>>

(* one sweep of cleanup_old_jobs, after its sleep; rmtree runs with     *)
(* ignore_errors=True, so a directory may survive its deletion          *)
cleanup_old_jobs ==
    /\ reaper = "sleep"
    /\ LET to_remove == {i \in JobIds :
               /\ jobs[i] # 0
               /\ heap[jobs[i]].completed_at # None
               /\ heap[jobs[i]].completed_at # 0
               /\ (now - heap[jobs[i]].completed_at) > CLEANUP_AFTER_SECONDS}
       IN  /\ \E undeleted \in SUBSET to_remove :
                  dirs' = dirs \ (to_remove \ undeleted)
           /\ jobs' = [i \in JobIds |-> IF i \in to_remove THEN 0 ELSE jobs[i]]
    /\ UNCHANGED <<params, uploads, MAX_WORKERS, phase, heap, job_queue, wpc,
                   wjob, reaper, now, uuids, handler_calls, trace>>

(* the wall clock advances *)
Tick ==
    /\ now < MaxTime
    /\ now' = now + TickStep
    /\ UNCHANGED <<params, uploads, MAX_WORKERS, phase, jobs, heap, job_queue,
                   wpc, wjob, reaper, dirs, uuids, handler_calls, trace>>

(* time.time() is the wall clock: it is set back (an adjustment by the *)
(* operator or by time synchronisation)                                *)
clock_set_back ==
    /\ now > StartTime
    /\ now' = now - TickStep
    /\ UNCHANGED <<params, uploads, MAX_WORKERS, phase, jobs, heap, job_queue,
                   wpc, wjob, reaper, dirs, uuids, handler_calls, trace>>

(* stems.py:30-57 and karaoke.py:27-49 up to their first suspension    *)
(* point or their return.  `file` tells whether a file was uploaded;   *)
(* `url` is "none", "search" (detect_platform finds no URL) or "valid". *)
(* The synchronous writes of the url branch are part of the step; the  *)
(* file branch suspends at `await file.read()` before its write.       *)
start_route(job_type, job_params, file, url, u) ==
    /\ create_job(job_type,
                  IF ~file /\ url = "valid"
                  THEN job_params \cup {"url", "needs_download",
                                        "input_file", "download_url"}
                  ELSE job_params,
                  u)
    /\ uploads' = IF file THEN uploads \cup {Len(heap) + 1} ELSE uploads

start_stems(file, url, u) ==
    start_route("stems", {"output_format", "stems"}, file, url, u)

start_karaoke(file, url, u) ==
    start_route("karaoke", {"output_format"}, file, url, u)

(* stems.py:43-44, karaoke.py:37-38: the route resumes after file.read() *)
upload_saved(o) ==
    /\ o \in uploads
    /\ uploads' = uploads \ {o}
    /\ params' = [params EXCEPT ![o] = @ \cup {"input_file"}]
    /\ UNCHANGED <<MAX_WORKERS, phase, jobs, heap, job_queue, wpc, wjob,
                   reaper, now, dirs, uuids, handler_calls, trace>>

(* download.py:72-90: the URL is checked before the job is created *)
start_download(url, u) ==
    IF url = "search"
    THEN phase = "running" /\ UNCHANGED vars
    ELSE /\ create_job("download", {"url", "format_id", "type", "platform"}, u)
         /\ UNCHANGED uploads

Urls == {"none", "search", "valid"}

(* stems.py:48-49,56-57, karaoke.py:41-42,48-49: the request is answered *)
(* with HTTPException 400                                                *)
Rejected(file, url) == ~file /\ url \in {"none", "search"}

Next ==
    \/ start_workers
    \/ stop_workers
    \/ \E t \in JobTypes, u \in Uuids :
           create_job(t, {}, u) /\ UNCHANGED uploads
    \/ \E w \in Workers : HandlerProgress(w)
    \/ \E w \in Workers : WorkerGet(w)
    \/ \E w \in Workers : HandlerReturn(w)
    \/ \E w \in Workers, e \in ErrDescs : HandlerRaise(w, e)
    \/ cleanup_old_jobs
    \/ Tick

Spec == Init /\ [][Next]_vars

(* The event loop runs every task that is ready, and a handler that has  *)
(* been invoked returns or raises.  Shutdown and requests are not forced. *)
Fairness ==
    /\ WF_vars(start_workers)
    /\ \A w \in Workers : WF_vars(WorkerGet(w))
    /\ \A w \in Workers :
           WF_vars(HandlerReturn(w) \/ \E e \in ErrDescs : HandlerRaise(w, e))

LiveSpec == Spec /\ Fairness

(* cleanup_old_jobs sweeps every 300 s for as long as it is not cancelled, *)
(* and the wall clock keeps advancing                                      *)
ReaperFairness == WF_vars(Tick) /\ WF_vars(cleanup_old_jobs)

ReaperSpec == LiveSpec /\ ReaperFairness

(* the requests of the three start routes against the worker pool *)
RouteNext ==
    \/ start_workers
    \/ \E file \in BOOLEAN, url \in Urls, u \in Uuids :
           start_stems(file, url, u)
    \/ \E file \in BOOLEAN, url \in Urls, u \in Uuids :
           start_karaoke(file, url, u)
    \/ \E url \in Urls \ {"none"}, u \in Uuids : start_download(url, u)
    \/ \E o \in uploads : upload_saved(o)
    \/ \E w \in Workers : WorkerGet(w)
    \/ \E w \in Workers : HandlerReturn(w)
    \/ \E w \in Workers, e \in ErrDescs : HandlerRaise(w, e)

RouteSpec == Init /\ [][RouteNext]_vars

(* admission and dispatch under a wall clock that can also be set back *)
ClockNext ==
    \/ start_workers
    \/ \E t \in JobTypes, u \in Uuids :
           create_job(t, {}, u) /\ UNCHANGED uploads
    \/ \E w \in Workers : WorkerGet(w)
    \/ \E w \in Workers : HandlerReturn(w)
    \/ Tick
    \/ clock_set_back

ClockSpec == Init /\ [][ClockNext]_vars

----------------------------------------------------------------------------
(* Properties *)

Objects == 1..Len(heap)
Terminal == {DONE, ERROR}

IsPrefix(s, t) == Len(s) <= Len(t) /\ SubSeq(t, 1, Len(s)) = s

(* C1: the values assigned to a Job Record's status form a prefix of      *)
(* Queued, Processing, Done or of Queued, Processing, Error: nothing      *)
(* follows Done or Error and Queued is never assigned again.              *)
C1_StatusPath ==
    \A o \in Objects :
        \/ IsPrefix(trace[o], <<QUEUED, PROCESSING, DONE>>)
        \/ IsPrefix(trace[o], <<QUEUED, PROCESSING, ERROR>>)

(* C2: while the pool runs, at most MAX_WORKERS Job Records are           *)
(* Processing, however many jobs were created.                            *)
C2_ProcessingBounded ==
    phase = "running" =>
        Cardinality({o \in Objects : heap[o].status = PROCESSING})
            <= MAX_WORKERS

C2_Witness ==
    /\ phase = "running"
    /\ Cardinality({o \in Objects : heap[o].status = PROCESSING})
           = MAX_WORKERS
    /\ job_queue # << >>

(* C3: the handler is invoked at most once for each job identifier.       *)
C3_HandlerAtMostOnce ==
    \A i \in JobIds : handler_calls[i] <= 1

(* C4: unless the pool is stopped, every created job eventually becomes   *)
(* Done or Error.                                                         *)
C4_EventuallyTerminal ==
    \A k \in 1..MaxJobs :
        [](Len(heap) >= k =>
              <>(phase = "stopped"
                 \/ (Len(heap) >= k /\ heap[k].status \in Terminal)))

(* C5: when a handler raises, the job becomes Error with a non-empty      *)
(* message and the worker returns to waiting for the next identifier.     *)
C5_RaiseGivesMessage ==
    [][\A w \in Workers, e \in ErrDescs :
          HandlerRaise(w, e) =>
              /\ heap'[wjob[w]].status = ERROR
              /\ heap'[wjob[w]].message # << >>
              /\ wpc'[w] = "get"]_vars

(* C6: dispatching a job whose type has no registered handler leaves it   *)
(* Error with the message naming the type, invokes no handler, and the    *)
(* worker returns to waiting for the next identifier.                     *)
C6_NoHandlerIsError ==
    [][\A w \in Workers :
          (/\ WorkerGet(w)
           /\ InRegistry(Head(job_queue))
           /\ get_job(Head(job_queue)).job_type
                  \notin {"download", "stems", "karaoke"})
          => LET o == jobs[Head(job_queue)]
             IN  /\ heap'[o].status = ERROR
                 /\ heap'[o].message =
                        <<"No handler for job type: ", heap[o].job_type>>
                 /\ handler_calls' = handler_calls
                 /\ wpc' = wpc
                 /\ wpc'[w] = "get"
                 /\ job_queue' = Tail(job_queue)]_vars

C6_Witness ==
    \E o \in Objects :
        /\ heap[o].job_type = "other"
        /\ heap[o].status = ERROR
        /\ \E p \in Objects : p # o /\ heap[p].status = PROCESSING

(* C7: for every Job Record of the registry, completed_at is set exactly  *)
(* when status is Done or Error.                                          *)
C7_CompletedIffTerminal ==
    \A i \in RegistryIds :
        (get_job(i).completed_at # None) <=> (get_job(i).status \in Terminal)

(* C8: no two create_job calls return the same identifier.                *)
C8_FreshIdentifier ==
    \A o, p \in Objects : o # p => heap[o].id # heap[p].id

(* C9: as long as nothing has been dequeued, N create_job calls leave N   *)
(* Queued records in the registry and their N identifiers, each once, in  *)
(* the admission queue.                                                   *)
C9_NoLostOrDuplicated ==
    Len(job_queue) = Len(heap) =>
        /\ Cardinality(RegistryIds) = Len(heap)
        /\ \A i \in RegistryIds : get_job(i).status = QUEUED
        /\ {job_queue[k] : k \in 1..Len(job_queue)} = RegistryIds
        /\ \A k, l \in 1..Len(job_queue) :
               k # l => job_queue[k] # job_queue[l]

(* C10: get_queue_position is 0 for an absent or non-Queued job, else 1   *)
(* plus the number of other Queued records created strictly earlier; so   *)
(* it is positive exactly for the Queued records of the registry.         *)
C10_QueuePosition ==
    \A i \in JobIds \cup {Prefix8(UuidCount - 1) + 1} :
        LET present == i \in DOMAIN jobs /\ jobs[i] # 0
            queued == present /\ heap[jobs[i]].status = QUEUED
            ahead == {k \in JobIds \ {i} :
                         /\ jobs[k] # 0
                         /\ heap[jobs[k]].status = QUEUED
                         /\ heap[jobs[k]].created_at
                                < heap[jobs[i]].created_at}
        IN  /\ get_queue_position(i) =
                   (IF queued THEN 1 + Cardinality(ahead) ELSE 0)
            /\ (get_queue_position(i) > 0) <=> queued

C10_Witness ==
    \E i, k \in JobIds :
        /\ get_queue_position(i) = 2
        /\ get_queue_position(k) = 1

(* C11: jobs created one after another that are all still Queued have    *)
(* the positions 1, 2, ..., n in creation order, whatever their           *)
(* timestamps (stated for jobs with pairwise distinct identifiers).       *)
C11_CreationOrderRanks ==
    (/\ \A o \in Objects : heap[o].status = QUEUED
     /\ \A o, p \in Objects : o # p => heap[o].id # heap[p].id)
    => \A o \in Objects : get_queue_position(heap[o].id) = o

(* C12: with one worker, a job leaves Queued only after every job         *)
(* enqueued before it has reached Done or Error.                          *)
C12_OneWorkerInOrder ==
    MAX_WORKERS = 1 =>
        \A o, p \in Objects :
            (o < p /\ Len(trace[p]) > 1)
            => \E k \in 1..Len(trace[o]) : trace[o][k] \in Terminal

(* the retention window of a Job Record has elapsed *)
Expired(job) ==
    job.completed_at # None /\ now - job.completed_at > CLEANUP_AFTER_SECONDS

(* C13 as stated: a sweep that runs after the retention window of a job   *)
(* has elapsed leaves get_job(id) absent and output_dir deleted.          *)
C13_SweepRemovesAll ==
    [][cleanup_old_jobs =>
          \A o \in Objects :
              Expired(heap[o]) =>
                  /\ jobs'[heap[o].id] = 0
                  /\ heap[o].id \notin dirs']_vars

(* C13 amended: a sweep removes from the registry exactly the records     *)
(* whose retention window has elapsed, so get_job no longer returns such  *)
(* a record; it deletes no directory but theirs, and a directory whose    *)
(* deletion fails stays.                                                  *)
C13_SweepRemovesRecords ==
    [][cleanup_old_jobs =>
          /\ \A i \in JobIds :
                 jobs'[i] = (IF InRegistry(i) /\ Expired(get_job(i))
                             THEN 0 ELSE jobs[i])
          /\ dirs' \subseteq dirs
          /\ \A i \in dirs \ dirs' : InRegistry(i) /\ Expired(get_job(i))]_vars

C13_Witness ==
    \E o \in Objects :
        /\ Expired(heap[o])
        /\ ~InRegistry(heap[o].id)
        /\ heap[o].id \in dirs

(* C14: the Reaper removes no record and deletes no output_dir of a       *)
(* record whose status is Queued or Processing.                           *)
C14_ReapsOnlyTerminal ==
    [][\A i \in JobIds :
          (InRegistry(i) /\ (jobs'[i] = 0 \/ (i \in dirs /\ i \notin dirs')))
          => get_job(i).status \in Terminal]_vars

(* the worker's writes when a handler returns: queue.py:108-111 *)
ReturnWrites ==
    [][\A w \in Workers :
          HandlerReturn(w) =>
              /\ heap'[wjob[w]].status = DONE
              /\ heap'[wjob[w]].progress = 100
              /\ heap'[wjob[w]].message = <<"Complete!">>
              /\ heap'[wjob[w]].completed_at = now]_vars

(* C15: a handler that returns leaves the job Done with progress 100,    *)
(* message "Complete!" and completed_at set, so every Done job has       *)
(* progress 100 and a completion time.                                   *)
C15_DoneIsComplete ==
    \A o \in Objects :
        heap[o].status = DONE =>
            heap[o].progress = 100 /\ heap[o].completed_at # None

(* C16: the message stored on handler failure is cut to a fixed length:  *)
(* whatever that length is, a longer failure description exists, so the  *)
(* longest description explored is never stored in full.                 *)
C16_MessageTruncated ==
    [][\A w \in Workers, e \in ErrDescs :
          HandlerRaise(w, e) => Len(heap'[wjob[w]].message) < MaxErrLen]_vars

C18_OutputDirExists ==
    [][/\ \A i \in JobIds : jobs'[i] # 0 => i \in dirs'
       /\ \A i \in dirs \ dirs' : InRegistry(i) /\ jobs'[i] = 0]_vars

C18_Witness ==
    /\ \E i \in JobIds : InRegistry(i) /\ i \in dirs
    /\ \E o \in Objects :
           ~InRegistry(heap[o].id) /\ heap[o].id \notin dirs

(* C19: a Job Record whose status is not Done has an empty result.       *)
C19_ResultOnlyWhenDone ==
    \A o \in Objects : heap[o].status # DONE => heap[o].result = FALSE

(* C20: no handler of a stems or karaoke job runs while the start route  *)
(* of that job still has to write input_file into job.params.            *)
C20_ParamsBeforeHandler ==
    \A w \in Workers :
        (wpc[w] = "handler" /\ heap[wjob[w]].job_type \in {"stems", "karaoke"})
        => wjob[w] \notin uploads

(* the retention window of a completed Job Record is still open *)
WindowOpen(job) ==
    job.completed_at # None /\ now - job.completed_at <= CLEANUP_AFTER_SECONDS

(* queue.py:148: a sweep removes only records whose window has elapsed *)
SweepOnlyExpired ==
    [][\A i \in JobIds :
          (InRegistry(i) /\ jobs'[i] = 0) => Expired(get_job(i))]_vars

(* C21: the Reaper removes a record only when now - completed_at exceeds *)
(* the retention window, so a Done job whose window is still open is     *)
(* returned by get_job under its identifier and has its output_dir.      *)
C21_RetainedForWindow ==
    \A o \in Objects :
        (heap[o].status = DONE /\ WindowOpen(heap[o]))
        => /\ jobs[heap[o].id] = o
           /\ heap[o].id \in dirs

(* the earliest time a terminal job can have become terminal *)
TerminalSince(job) ==
    IF job.completed_at # None THEN job.completed_at ELSE job.created_at

(* C22: unless the application is shut down, every job that has become   *)
(* Done or Error is eventually removed from the registry by the Reaper.  *)
(* The clock of the model stops at MaxTime: a job that may have been     *)
(* terminal for no longer than the retention window when the clock       *)
(* stops is not required to be removed.                                  *)
C22_TerminalEventuallyReaped ==
    \A k \in 1..MaxJobs :
        []((Len(heap) >= k /\ heap[k].status \in Terminal)
           => <>(\/ phase = "stopped"
                 \/ /\ Len(heap) >= k
                    /\ \/ jobs[heap[k].id] # k
                       \/ /\ now >= MaxTime
                          /\ now - TerminalSince(heap[k])
                                 <= CLEANUP_AFTER_SECONDS))

(* C23: whatever the number of workers, jobs leave Queued in the order   *)
(* they were enqueued: while a job is still Queued, no job created after *)
(* it has become Processing or Error.                                    *)
C23_LeaveQueuedInOrder ==
    \A o, p \in Objects :
        (o < p /\ heap[o].status = QUEUED) => trace[p] = <<QUEUED>>

(* C24: the step that stops the workers (the only one that leaves phase  *)
(* "stopped") ends every worker loop and, for the workers that were      *)
(* waiting for an identifier as for the others, removes nothing from the *)
(* admission queue and changes no Job Record; nor does any later step,   *)
(* so the Queued jobs stay Queued with their identifiers enqueued.       *)
C24_StopKeepsQueue ==
    [][phase' = "stopped" =>
          /\ \A w \in Workers : wpc'[w] \notin {"get", "handler"}
          /\ \A w \in Workers : wpc[w] # "none" => wpc'[w] = "exited"
          /\ job_queue' = job_queue
          /\ jobs' = jobs
          /\ heap' = heap
          /\ params' = params]_vars

C24_Witness ==
    /\ phase = "stopped"
    /\ \E w \in Workers : wpc[w] = "exited" /\ wjob[w] = 0
    /\ job_queue # << >>
    /\ InRegistry(Head(job_queue))
    /\ get_job(Head(job_queue)).status = QUEUED

(* C25: the job of a worker that was cancelled inside its handler is     *)
(* abandoned: from then on it is the record the registry holds under its *)
(* identifier, it is Processing and its completed_at is unset.           *)
C25_AbandonedStaysProcessing ==
    \A w \in Workers :
        (wpc[w] = "exited" /\ wjob[w] # 0) =>
            LET job == heap[wjob[w]]
            IN  /\ jobs[job.id] = wjob[w]
                /\ job.status = PROCESSING
                /\ job.completed_at = None

(* C26: a stems or karaoke start request that is rejected (no file and   *)
(* an invalid URL, or neither file nor URL) creates no Job Record and    *)
(* enqueues no identifier.                                               *)
C26_RejectedCreatesNothing ==
    [][\A file \in BOOLEAN, url \in Urls, u \in Uuids :
          (/\ Rejected(file, url)
           /\ start_stems(file, url, u) \/ start_karaoke(file, url, u))
          => /\ jobs' = jobs
             /\ heap' = heap
             /\ job_queue' = job_queue]_vars

(* C27: the identifiers in the admission queue are exactly those of the  *)
(* Queued records of the registry, each once, so qsize() is the number   *)
(* of Queued jobs and every dequeued identifier is in the registry.      *)
C27_QueueMatchesQueued ==
    LET queued == {i \in RegistryIds : get_job(i).status = QUEUED}
    IN  /\ {job_queue[k] : k \in 1..Len(job_queue)} = queued
        /\ Len(job_queue) = Cardinality(queued)

(* a position decreases only in a step that dequeues an identifier *)
PositionDropsOnDequeue ==
    [][\A i \in JobIds :
          (/\ InRegistry(i) /\ jobs'[i] = jobs[i]
           /\ get_job(i).status = QUEUED
           /\ heap'[jobs[i]].status = QUEUED
           /\ get_queue_position(i)' < get_queue_position(i))
          => job_queue' = Tail(job_queue)]_vars

(* C28: while a job stays Queued in the registry, no step (creating      *)
(* further jobs included) raises its position, and its position is 1     *)
(* when the job itself is dequeued.                                      *)
C28_PositionNeverRises ==
    [][/\ \A i \in JobIds :
              (/\ InRegistry(i) /\ jobs'[i] = jobs[i]
               /\ get_job(i).status = QUEUED
               /\ heap'[jobs[i]].status = QUEUED)
              => get_queue_position(i)' <= get_queue_position(i)
       /\ \A i \in JobIds :
              (/\ InRegistry(i) /\ get_job(i).status = QUEUED
               /\ job_queue # << >> /\ Head(job_queue) = i
               /\ job_queue' = Tail(job_queue))
              => get_queue_position(i) = 1]_vars

====
